---- MODULE Spec2Model ----
(***************************************************************************)
(* Model of src/main.py: the deck optimiser.                               *)
(*                                                                         *)
(* The script reads three tables, expands them into card options           *)
(* (player_values), states a 0/1 program over x[i][j] and y[j], asks the   *)
(* solver for an optimal assignment and prints the activated decks with    *)
(* their rewards.                                                          *)
(*                                                                         *)
(* Representation.                                                         *)
(*  - x is kept per slot as the set of option indices i with x[i][j] = 1,  *)
(*    so Sum_i x[i][j] is Cardinality(x[j]).  Indices are 1-based.         *)
(*  - Scores and prices are integers.  The inputs are chosen so that every *)
(*    product of the script (multiplier 1.5, factor 0.75) is an integer;   *)
(*    on such inputs the script's float arithmetic is exact.               *)
(*  - solver.Solve() is the external SCIP solver.  No limit is set on it,  *)
(*    so it answers OPTIMAL with some assignment that satisfies every      *)
(*    constraint and maximises the objective when one exists, and          *)
(*    INFEASIBLE otherwise; which optimal assignment is not determined.    *)
(*  - rewards.csv holds at least one tier when the decks are solved: the   *)
(*    activation constraint reads reward_thresholds[0].  The reward lookup *)
(*    itself is also run on the empty list (SpecRewards).                  *)
(***************************************************************************)
EXTENDS Integers, FiniteSets, Sequences, TLC

VARIABLES
    existing_cards,     \* rows of existing_cards.csv
    players,            \* rows of players.csv
    reward_thresholds,  \* rows of rewards.csv, in file order
    budget,             \* budget
    num_decks,          \* num_decks
    player_values,      \* the expanded card options
    status,             \* result of solver.Solve()
    x,                  \* x[j]: the options i with x[i][j].solution_value() = 1
    y,                  \* y[j].solution_value()
    pc,                 \* position in the script
    j,                  \* loop variable of the result loop
    totals,             \* <<>> while total_* are unbound, else one record
    decks,              \* the decks printed so far
    new_players_list,   \* new_players_list
    message,            \* 'Solution found!' / 'No optimal solution found.'
    solve_calls,        \* number of calls of solver.Solve()
    value_reads,        \* number of calls of solution_value()
    reward_calls,       \* number of calls of get_max_threshold_rewards
    score,              \* argument of the last reward lookup (SpecRewards)
    payout              \* <<>> or the record of the last lookup's three results

vars == <<existing_cards, players, reward_thresholds, budget, num_decks,
          player_values, status, x, y, pc, j, totals, decks, new_players_list,
          message, solve_calls, value_reads, reward_calls, score, payout>>

inputs == <<existing_cards, players, reward_thresholds, budget, num_decks>>

(***************************************************************************)
(* Program constants                                                       *)
(***************************************************************************)
DeckSize == 5

Rarities == <<"Common", "Rare", "Epic">>

\* rarity_multipliers, in halves: 1, 1.5, 2
rarity_multipliers == [Common |-> 2, Rare |-> 3, Epic |-> 4]

Multiplied(v, rarity) == (v * rarity_multipliers[rarity]) \div 2

PriceMultiplier(rarity) ==
    IF rarity = "Common" THEN 1 ELSE IF rarity = "Rare" THEN 4 ELSE 18

RewardTypes == {"fan_points", "cards", "gold"}

(***************************************************************************)
(* Helpers                                                                 *)
(***************************************************************************)
RECURSIVE Sum(_, _)
Sum(f, S) ==
    IF S = {} THEN 0
    ELSE LET e == CHOOSE e \in S : TRUE IN f[e] + Sum(f, S \ {e})

Max(S) == CHOOSE m \in S : \A n \in S : n <= m

Min(S) == CHOOSE m \in S : \A n \in S : m <= n

RECURSIVE Ascending(_)
\* the elements of a finite set of integers in increasing order
Ascending(S) ==
    IF S = {} THEN <<>>
    ELSE LET m == Min(S) IN <<m>> \o Ascending(S \ {m})

(***************************************************************************)
(* precompute_player_values                                                *)
(***************************************************************************)
OwnedValue(card) ==
    [name         |-> card.Name,
     rarity       |-> card.Rarity,
     lower_score  |-> (Multiplied(card.Median, card.Rarity) * 3) \div 4,
     median_score |-> Multiplied(card.Median, card.Rarity),
     upper_score  |-> Multiplied(card.Upper, card.Rarity),
     price        |-> 0,
     is_existing  |-> TRUE]

\* PlayerValue charging only the premium over the floor price, so that a
\* Common card is free
PlayerValuePremiumOnly(player, rarity) ==
    [name         |-> player.Name,
     rarity       |-> rarity,
     lower_score  |-> Multiplied(player.Lower, rarity),
     median_score |-> Multiplied(player.Median, rarity),
     upper_score  |-> Multiplied(player.Upper, rarity),
     price        |-> player.Floor * (PriceMultiplier(rarity) - 1),
     is_existing  |-> FALSE]

PlayerValue(player, rarity) ==
    [name         |-> player.Name,
     rarity       |-> rarity,
     lower_score  |-> Multiplied(player.Lower, rarity),
     median_score |-> Multiplied(player.Median, rarity),
     upper_score  |-> Multiplied(player.Upper, rarity),
     price        |-> player.Floor * PriceMultiplier(rarity),
     is_existing  |-> FALSE]

precompute_player_values(ps, cards) ==
    [k \in 1..Len(cards) |-> OwnedValue(cards[k])]
    \o [k \in 1..(3 * Len(ps)) |->
           PlayerValue(ps[((k - 1) \div 3) + 1], Rarities[((k - 1) % 3) + 1])]

Options == DOMAIN player_values

(***************************************************************************)
(* get_max_threshold_rewards                                               *)
(***************************************************************************)
RECURSIVE ScanRewardsHighest(_, _, _)
\* ScanRewards keeping the qualifying tier with the highest threshold
ScanRewardsHighest(k, s, applicable) ==
    IF k > Len(reward_thresholds) THEN applicable
    ELSE ScanRewardsHighest(k + 1, s,
            IF /\ s >= reward_thresholds[k].threshold
               /\ (applicable = 0 \/ reward_thresholds[k].threshold
                                        >= reward_thresholds[applicable].threshold)
            THEN k ELSE applicable)

RECURSIVE ScanRewardsReversed(_, _, _)
\* ScanRewards with the comparison turned round
ScanRewardsReversed(k, s, applicable) ==
    IF k > Len(reward_thresholds) THEN applicable
    ELSE ScanRewardsReversed(k + 1, s,
            IF s <= reward_thresholds[k].threshold THEN k ELSE applicable)

RECURSIVE ScanRewards(_, _, _)
\* the loop over reward_thresholds from position k on; applicable is the
\* position of applicable_threshold, 0 for None
ScanRewards(k, s, applicable) ==
    IF k > Len(reward_thresholds) THEN applicable
    ELSE ScanRewards(k + 1, s,
            IF s >= reward_thresholds[k].threshold THEN k ELSE applicable)

get_max_threshold_rewards(s, reward_type) ==
    LET applicable == ScanRewards(1, s, 0)
    IN  IF applicable # 0 THEN reward_thresholds[applicable][reward_type] ELSE 0

(***************************************************************************)
(* The constraints stated on the solver                                    *)
(***************************************************************************)
SlotLowerScore(S) == Sum([i \in S |-> player_values[i].lower_score], S)

SlotPrice(S) == Sum([i \in S |-> player_values[i].price], S)

Objective(yy) == Sum(yy, DOMAIN yy)

DeckSizeConstraint(S) == Cardinality(S) = DeckSize

\* the activation constraint without the factor y[j]
ActivationConstraintUnconditional(S, yj) ==
    SlotLowerScore(S) >= reward_thresholds[1].threshold

ActivationConstraint(S, yj) ==
    SlotLowerScore(S) >= reward_thresholds[1].threshold * yj

\* the budget applied to each slot instead of to all slots together
BudgetConstraintPerSlot(xx) ==
    \A jj \in DOMAIN xx : SlotPrice(xx[jj]) <= budget

BudgetConstraint(xx) ==
    Sum([jj \in DOMAIN xx |-> SlotPrice(xx[jj])], DOMAIN xx) <= budget

\* names grouped apart for owned and for bought options
NameConstraintPerOrigin(S) ==
    \A n \in {player_values[i].name : i \in S} : \A e \in BOOLEAN :
        Cardinality({i \in S : player_values[i].name = n
                                 /\ player_values[i].is_existing = e}) <= 1

NameConstraint(S) ==
    \A n \in {player_values[i].name : i \in S} :
        Cardinality({i \in S : player_values[i].name = n}) <= 1

\* the single-use constraint stated for the bought options instead
ExistingConstraintOnNew(xx) ==
    \A a, b \in DOMAIN xx :
        a < b => \A i \in xx[a] \cap xx[b] : player_values[i].is_existing

ExistingConstraint(xx) ==
    \A a, b \in DOMAIN xx :
        a < b => \A i \in xx[a] \cap xx[b] : ~player_values[i].is_existing

(***************************************************************************)
(* The solver: the assignments that satisfy the constraints                *)
(***************************************************************************)
\* the contents one slot may take under the constraints on a single slot
\* (the outer set constructor makes TLC enumerate the subsets only once)
SlotChoices ==
    {S : S \in {T \in SUBSET Options : DeckSizeConstraint(T) /\ NameConstraint(T)}}

RECURSIVE FillSlots(_, _)
\* every assignment of slots 1..n that meets the budget and single-use
\* constraints.  Both are downward closed (prices are not negative), so an
\* assignment of slots 1..n-1 that breaks one is not extended.
FillSlots(n, choices) ==
    IF n = 0 THEN {<<>>}
    ELSE UNION {{Append(p, S) :
                    S \in {S \in choices :
                              /\ ExistingConstraint(Append(p, S))
                              /\ BudgetConstraint(Append(p, S))}} :
                p \in FillSlots(n - 1, choices)}

\* (the binding makes TLC compute SlotChoices once)
FeasibleX == UNION {FillSlots(num_decks, choices) : choices \in {SlotChoices}}

FeasibleY(xx) ==
    {yy \in [1..num_decks -> {0, 1}] :
        \A jj \in 1..num_decks : ActivationConstraint(xx[jj], yy[jj])}

Feasible(FX) == UNION {{<<xx, yy>> : yy \in FeasibleY(xx)} : xx \in FX}

\* the objective minimised instead of maximised
OptimalSolutionsMinimised(F) ==
    LET best == Min({Objective(s[2]) : s \in F})
    IN  {s \in F : Objective(s[2]) = best}

OptimalSolutions(F) ==
    LET best == Max({Objective(s[2]) : s \in F})
    IN  {s \in F : Objective(s[2]) = best}

NoValues == [jj \in 1..num_decks |-> {}]

NoFlags == [jj \in 1..num_decks |-> 0]

\* any status of a finished solve taken for success
IsOptimalLoose(st) == st # "NOT_SOLVED"

IsOptimal(st) == st = "OPTIMAL"

(***************************************************************************)
(* The inputs                                                              *)
(***************************************************************************)
MaxOwned == 10
MaxBudget == 2
MaxDecks == 2

\* existing_cards.csv is a prefix of this table.  Several rows name the same
\* player (copies of a card, duplicate rows); medians are multiples of 8.
OwnedTable ==
    <<[Name |-> "Ann", Rarity |-> "Common", Median |-> 40, Upper |-> 48],
      [Name |-> "Bob", Rarity |-> "Common", Median |-> 40, Upper |-> 48],
      [Name |-> "Cy",  Rarity |-> "Rare",   Median |-> 40, Upper |-> 48],
      [Name |-> "Dee", Rarity |-> "Common", Median |-> 40, Upper |-> 48],
      [Name |-> "Eve", Rarity |-> "Epic",   Median |-> 40, Upper |-> 48],
      [Name |-> "Ann", Rarity |-> "Common", Median |-> 48, Upper |-> 56],
      [Name |-> "Fay", Rarity |-> "Common", Median |-> 32, Upper |-> 40],
      [Name |-> "Bob", Rarity |-> "Common", Median |-> 32, Upper |-> 40],
      [Name |-> "Cy",  Rarity |-> "Common", Median |-> 40, Upper |-> 48],
      [Name |-> "Dee", Rarity |-> "Common", Median |-> 32, Upper |-> 40],
      [Name |-> "Eve", Rarity |-> "Common", Median |-> 40, Upper |-> 48],
      [Name |-> "Fay", Rarity |-> "Rare",   Median |-> 32, Upper |-> 40]>>

\* players.csv is a prefix of this table.  The first player is also owned.
PlayerTable ==
    <<[Name |-> "Ann", Lower |-> 32, Median |-> 40, Upper |-> 48, Floor |-> 1],
      [Name |-> "Lou", Lower |-> 8,  Median |-> 16, Upper |-> 24, Floor |-> 1],
      [Name |-> "Mia", Lower |-> 16, Median |-> 24, Upper |-> 32, Floor |-> 2],
      [Name |-> "Ned", Lower |-> 8,  Median |-> 16, Upper |-> 24, Floor |-> 1],
      [Name |-> "Oz",  Lower |-> 8,  Median |-> 16, Upper |-> 24, Floor |-> 3],
      [Name |-> "Pia", Lower |-> 8,  Median |-> 16, Upper |-> 24, Floor |-> 1]>>

LowTier  == [threshold |-> 150, fan_points |-> 10, cards |-> 1, gold |-> 50]

HighTier == [threshold |-> 200, fan_points |-> 20, cards |-> 2, gold |-> 100]

\* rewards.csv: one tier, two tiers ascending, two tiers descending
DeckTierLists == {<<LowTier>>, <<LowTier, HighTier>>, <<HighTier, LowTier>>}

\* owned cards with at most one player on the market, or no owned card and
\* just enough players to fill one deck from the market
InputShapes ==
    {<<no, np>> \in (0..MaxOwned) \X {0, 1} : no <= Len(OwnedTable)}
    \cup {<<0, DeckSize>>}

(***************************************************************************)
(* The script                                                              *)
(***************************************************************************)
Init ==
    /\ \E shape \in InputShapes :
          /\ existing_cards = SubSeq(OwnedTable, 1, shape[1])
          /\ players = SubSeq(PlayerTable, 1, shape[2])
    /\ reward_thresholds \in DeckTierLists
    /\ budget \in 0..MaxBudget
    /\ num_decks \in 1..MaxDecks
    /\ player_values = <<>>
    /\ status = "NOT_SOLVED"
    /\ x = NoValues
    /\ y = NoFlags
    /\ pc = "load"
    /\ j = 0
    /\ totals = <<>>
    /\ decks = <<>>
    /\ new_players_list = <<>>
    /\ message = ""
    /\ solve_calls = 0
    /\ value_reads = 0
    /\ reward_calls = 0
    /\ score = 0
    /\ payout = <<>>

\* lines 59-130: the options and the reward tiers are built and the
\* variables, the objective and the constraints are stated on the solver
Precompute ==
    /\ pc = "load"
    /\ player_values' = precompute_player_values(players, existing_cards)
    /\ pc' = "solve"
    /\ UNCHANGED <<inputs, status, x, y, j, totals, decks, new_players_list,
                   message, solve_calls, value_reads, reward_calls, score, payout>>

\* what the solver may answer when FX are the assignments that fill every slot
SolveOutcomesOn(FX) ==
    LET F == Feasible(FX)
    IN  IF F = {}
        THEN {[status |-> "INFEASIBLE", x |-> NoValues, y |-> NoFlags]}
        ELSE {[status |-> "OPTIMAL", x |-> s[1], y |-> s[2]] :
                 s \in OptimalSolutions(F)}

SolveOutcomes == SolveOutcomesOn(FeasibleX)

\* lines 133-135
Solve ==
    /\ pc = "solve"
    /\ \E r \in SolveOutcomes :
          /\ status' = r.status
          /\ x' = r.x
          /\ y' = r.y
    /\ solve_calls' = solve_calls + 1
    /\ pc' = "process"
    /\ UNCHANGED <<inputs, player_values, j, totals, decks, new_players_list,
                   message, value_reads, reward_calls, score, payout>>

\* lines 138-145
BeginReport ==
    /\ pc = "process"
    /\ IsOptimal(status)
    /\ totals' = <<[fan_points |-> 0, cards |-> 0, gold |-> 0, cost |-> 0]>>
    /\ message' = "Solution found!"
    /\ j' = 1
    /\ pc' = "decks"
    /\ UNCHANGED <<inputs, player_values, status, x, y, decks, new_players_list,
                   solve_calls, value_reads, reward_calls, score, payout>>

\* lines 197-198
ReportNoSolution ==
    /\ pc = "process"
    /\ ~IsOptimal(status)
    /\ message' = "No optimal solution found."
    /\ pc' = "done"
    /\ UNCHANGED <<inputs, player_values, status, x, y, j, totals, decks,
                   new_players_list, solve_calls, value_reads, reward_calls,
                   score, payout>>

\* lines 150-181 for one activated slot
DeckReport(jj) ==
    LET members == Ascending(x[jj])
        lower   == SlotLowerScore(x[jj])
    IN  [deck         |-> jj,
         members      |-> members,
         cost         |-> SlotPrice(x[jj]),
         lower_score  |-> lower,
         median_score |-> Sum([i \in x[jj] |-> player_values[i].median_score], x[jj]),
         upper_score  |-> Sum([i \in x[jj] |-> player_values[i].upper_score], x[jj]),
         fan_points   |-> get_max_threshold_rewards(lower, "fan_points"),
         cards        |-> get_max_threshold_rewards(lower, "cards"),
         gold         |-> get_max_threshold_rewards(lower, "gold"),
         new_players  |-> SelectSeq(members, LAMBDA i : ~player_values[i].is_existing)]

\* lines 147-185: one pass of the loop over the slots
ProcessDeck ==
    /\ pc = "decks"
    /\ j <= num_decks
    /\ IF y[j] = 1
       THEN LET d == DeckReport(j)
            IN  /\ decks' = Append(decks, d)
                /\ totals' = <<[fan_points |-> totals[1].fan_points + d.fan_points,
                                cards      |-> totals[1].cards + d.cards,
                                gold       |-> totals[1].gold + d.gold,
                                cost       |-> totals[1].cost + d.cost]>>
                /\ new_players_list' =
                       IF d.new_players # <<>>
                       THEN Append(new_players_list,
                                   [deck |-> j, players |-> d.new_players])
                       ELSE new_players_list
                /\ value_reads' = value_reads + 1 + Len(player_values)
                /\ reward_calls' = reward_calls + 3
       ELSE /\ value_reads' = value_reads + 1
            /\ UNCHANGED <<decks, totals, new_players_list, reward_calls>>
    /\ j' = j + 1
    /\ UNCHANGED <<inputs, player_values, status, x, y, pc, message, solve_calls,
                   score, payout>>

\* lines 187-196
EndReport ==
    /\ pc = "decks"
    /\ j > num_decks
    /\ pc' = "done"
    /\ UNCHANGED <<inputs, player_values, status, x, y, j, totals, decks,
                   new_players_list, message, solve_calls, value_reads,
                   reward_calls, score, payout>>

Next ==
    \/ Precompute
    \/ Solve
    \/ BeginReport
    \/ ReportNoSolution
    \/ ProcessDeck
    \/ EndReport

Spec == Init /\ [][Next]_vars

(***************************************************************************)
(* The reward lookup on its own: get_max_threshold_rewards applied to any  *)
(* score over any short tier list, sorted or not, empty or not.            *)
(***************************************************************************)
MaxTiers == 3
MaxThreshold == 3
MaxScore == 4

\* the three payouts a tier may carry; the third pays more fan points but
\* fewer cards and less gold than the second
Payouts ==
    {[fan_points |-> 10, cards |-> 1, gold |-> 50],
     [fan_points |-> 20, cards |-> 2, gold |-> 100],
     [fan_points |-> 30, cards |-> 0, gold |-> 60]}

Tiers ==
    {[threshold |-> t, fan_points |-> p.fan_points, cards |-> p.cards, gold |-> p.gold] :
        t \in 1..MaxThreshold, p \in Payouts}

TierLists == UNION {[1..n -> Tiers] : n \in 0..MaxTiers}

InitRewards ==
    /\ reward_thresholds \in TierLists
    /\ existing_cards = <<>>
    /\ players = <<>>
    /\ budget = 0
    /\ num_decks = 1
    /\ player_values = <<>>
    /\ status = "NOT_SOLVED"
    /\ x = NoValues
    /\ y = NoFlags
    /\ pc = "rewards"
    /\ j = 0
    /\ totals = <<>>
    /\ decks = <<>>
    /\ new_players_list = <<>>
    /\ message = ""
    /\ solve_calls = 0
    /\ value_reads = 0
    /\ reward_calls = 0
    /\ score = 0
    /\ payout = <<>>

\* lines 175-177: the three lookups made for one score
Lookup ==
    /\ pc = "rewards"
    /\ \E s \in 0..MaxScore :
          /\ score' = s
          /\ payout' = <<[fan_points |-> get_max_threshold_rewards(s, "fan_points"),
                          cards      |-> get_max_threshold_rewards(s, "cards"),
                          gold       |-> get_max_threshold_rewards(s, "gold")]>>
    /\ UNCHANGED <<inputs, player_values, status, x, y, pc, j, totals, decks,
                   new_players_list, message, solve_calls, value_reads, reward_calls>>

NextRewards == Lookup

SpecRewards == InitRewards /\ [][NextRewards]_vars

(***************************************************************************)
(* Properties of the reward lookup                                         *)
(***************************************************************************)
\* the positions of the tiers a score s qualifies for
Qualifying(s) ==
    {k \in DOMAIN reward_thresholds : reward_thresholds[k].threshold <= s}

ThresholdsAscending ==
    \A k \in DOMAIN reward_thresholds :
        k > 1 => reward_thresholds[k - 1].threshold <= reward_thresholds[k].threshold

PayoutsAscending ==
    \A k \in DOMAIN reward_thresholds : \A f \in RewardTypes :
        k > 1 => reward_thresholds[k - 1][f] <= reward_thresholds[k][f]

HigherScoreNeverPaysLess ==
    (payout # <<>> /\ ThresholdsAscending) =>
        \A s1 \in 0..score : \A f \in RewardTypes :
            get_max_threshold_rewards(s1, f) <= payout[1][f]

\* C7 amended: the same when the payouts too are ascending along the list.
HigherScoreNeverPaysLessOnAscendingPayouts ==
    (payout # <<>> /\ ThresholdsAscending /\ PayoutsAscending) =>
        \A s1 \in 0..score : \A f \in RewardTypes :
            get_max_threshold_rewards(s1, f) <= payout[1][f]

\* C7 witness: a lookup on an ascending list that lands on a later tier than
\* a lower score does and pays strictly more
HigherTierPaysMore ==
    /\ payout # <<>>
    /\ ThresholdsAscending
    /\ PayoutsAscending
    /\ \E s1 \in 0..score :
          /\ Qualifying(s1) # {}
          /\ Qualifying(s1) # Qualifying(score)
          /\ get_max_threshold_rewards(s1, "gold") < payout[1].gold

(***************************************************************************)
(* Properties of the solved decks                                          *)
(***************************************************************************)
Slots == 1..num_decks

NameOf(i) == player_values[i].name

IsExisting(i) == player_values[i].is_existing

DistinctNames(S) == \A a, b \in S : a # b => NameOf(a) # NameOf(b)

TotalPrice == Sum([jj \in Slots |-> SlotPrice(x[jj])], Slots)

FirstThreshold == reward_thresholds[1].threshold

LowestThreshold ==
    Min({reward_thresholds[k].threshold : k \in DOMAIN reward_thresholds})

Solved == pc \in {"process", "decks", "done"}

\* C1: in an optimal assignment every activated slot, and every deck printed,
\* holds exactly 5 options with pairwise different names.
ActivatedDecksWellFormed ==
    (Solved /\ status = "OPTIMAL") =>
        /\ \A jj \in Slots :
              y[jj] = 1 => Cardinality(x[jj]) = 5 /\ DistinctNames(x[jj])
        /\ \A k \in DOMAIN decks :
              /\ Len(decks[k].members) = 5
              /\ y[decks[k].deck] = 1
              /\ \A a, b \in 1..5 :
                    a # b => NameOf(decks[k].members[a]) # NameOf(decks[k].members[b])

\* C1 witness: a printed deck holds a bought card of a player of whom an owned
\* card exists and is left out of the deck
DeckWithBoughtVariantOfOwnedPlayer ==
    /\ pc = "done"
    /\ status = "OPTIMAL"
    /\ \E k \in DOMAIN decks :
          \E a \in 1..Len(decks[k].members) :
              /\ ~IsExisting(decks[k].members[a])
              /\ \E i \in Options :
                    IsExisting(i) /\ NameOf(i) = NameOf(decks[k].members[a])

\* C2: in an optimal assignment the prices of all options placed, summed over
\* all slots, activated or not, do not exceed the budget.
TotalPriceWithinBudget ==
    (Solved /\ status = "OPTIMAL") => TotalPrice <= budget

\* C2 witness: an optimal assignment that places the same bought option in two
\* slots and spends the whole budget
SameOptionBoughtTwice ==
    /\ Solved
    /\ status = "OPTIMAL"
    /\ TotalPrice = budget
    /\ \E a, b \in Slots : \E i \in x[a] \cap x[b] :
          a # b /\ player_values[i].price > 0

\* C3: in an optimal assignment every owned card is in at most one slot, and
\* two owned cards of one name are never in the same slot.
OwnedCardsUsedOnce ==
    (Solved /\ status = "OPTIMAL") =>
        /\ \A i \in Options :
              IsExisting(i) => Cardinality({jj \in Slots : i \in x[jj]}) <= 1
        /\ \A jj \in Slots : \A a, b \in x[jj] :
              (a # b /\ IsExisting(a) /\ IsExisting(b)) => NameOf(a) # NameOf(b)

\* C3 witness: two owned cards of one name are used, one in each of two slots
DuplicateOwnedCardsInTwoDecks ==
    /\ Solved
    /\ status = "OPTIMAL"
    /\ \E a, b \in Slots : \E i \in x[a] : \E k \in x[b] :
          /\ a # b
          /\ i # k
          /\ IsExisting(i)
          /\ IsExisting(k)
          /\ NameOf(i) = NameOf(k)

\* C4 as stated: in an optimal assignment the objective value equals the
\* number of slots whose lower-score sum reaches the lowest threshold of the
\* tier list, whatever the order of the list.
ObjectiveCountsSlotsAboveLowestThreshold ==
    (Solved /\ status = "OPTIMAL") =>
        Objective(y) =
            Cardinality({jj \in Slots : SlotLowerScore(x[jj]) >= LowestThreshold})

\* the largest number of decks of 5 distinct names, each reaching the lowest
\* threshold, that can be formed together within the budget with every owned
\* card in at most one of them
MaxFormable ==
    LET good == {S \in SlotChoices : SlotLowerScore(S) >= LowestThreshold}
    IN  Max({k \in 0..num_decks : FillSlots(k, good) # {}})

MaxActivated(FX) ==
    Max({Cardinality({jj \in Slots : SlotLowerScore(xx[jj]) >= FirstThreshold}) :
            xx \in FX})

NothingAffordableIsInfeasible ==
    (/\ budget = 0
     /\ existing_cards = <<>>
     /\ \A k \in DOMAIN players : players[k].Floor > 0) =>
        /\ Solved => status # "OPTIMAL"
        /\ pc = "solve" => \A r \in SolveOutcomes : r.status = "INFEASIBLE"
        /\ pc = "done" => message = "No optimal solution found." /\ decks = <<>>

\* C8 witness: such a run, with enough players on the market to fill a deck,
\* has ended
MarketOnlyRunEnded ==
    /\ pc = "done"
    /\ budget = 0
    /\ existing_cards = <<>>
    /\ Len(players) >= 5
    /\ \A k \in DOMAIN players : players[k].Floor > 0
    /\ message = "No optimal solution found."

\* C9: after a status other than OPTIMAL the program has printed 'No optimal
\* solution found.' and nothing else: no value was read, no deck formed, no
\* reward looked up, no total computed, and the solver was called once.
NonOptimalOnlyReported ==
    (pc = "done" /\ status # "OPTIMAL") =>
        /\ message = "No optimal solution found."
        /\ decks = <<>>
        /\ new_players_list = <<>>
        /\ totals = <<>>
        /\ value_reads = 0
        /\ reward_calls = 0
        /\ solve_calls = 1

\* C9 witness: a run on owned cards that suffice for one deck but not for the
\* two slots has ended without an optimal solution
InfeasibleRunEnded ==
    /\ pc = "done"
    /\ status = "INFEASIBLE"
    /\ Len(existing_cards) >= 5
    /\ num_decks = 2
    /\ solve_calls = 1

====
